---- MODULE Spec2Model ----
(***************************************************************************)
(* A model of go-mpris (src/mpris.go): the discovery function List, the    *)
(* Player handle and its accessors, and the signal subscription OnSignal.  *)
(* The bus (godbus connection, remote player) is the environment: every    *)
(* reply to a bus call is drawn nondeterministically from a finite set.    *)
(*                                                                         *)
(* Wire values are records [t |-> type tag, v |-> payload].  64-bit        *)
(* integers are four 16-bit limbs, least significant first, so that the    *)
(* two's-complement width of int64/uint64 is kept.  A float64 is kept as   *)
(* the exact rational sign * mag / den it denotes; the inputs are chosen   *)
(* so that every product the code forms is exactly representable.          *)
(***************************************************************************)
EXTENDS Integers, Sequences, FiniteSets, TLC

VARIABLES
    name,        \* Player.name: the service name the handle is bound to
    op,          \* the operation the caller ran, with its arguments and replies
    calls,       \* the bus calls that operation issued, in order
    ret,         \* what it handed back to the caller: [panic, err, val]
    matchRules,  \* match rules registered on the connection
    sigChans,    \* channels registered with conn.Signal
    delivered    \* signals delivered so far, as <<channel, signal>> pairs

vars == <<name, op, calls, ret, matchRules, sigChans, delivered>>

(***************************************************************************)
(* Bounds of the model.                                                    *)
(***************************************************************************)
MaxNames == 3        \* longest ListNames reply
MaxDelivered == 2    \* signals delivered before the model stops emitting

(***************************************************************************)
(* Constants of src/mpris.go.                                              *)
(***************************************************************************)
dbusObjectPath == "/org/mpris/MediaPlayer2"
propertiesChangedSignal == "org.freedesktop.DBus.Properties.PropertiesChanged"
BaseInterface == "org.mpris.MediaPlayer2"
PlayerInterface == "org.mpris.MediaPlayer2.Player"
getPropertyMethod == "org.freedesktop.DBus.Properties.Get"
setPropertyMethod == "org.freedesktop.DBus.Properties.Set"
MicrosPerSecond == 1000000

PlaybackPlaying == "Playing"
PlaybackPaused == "Paused"
PlaybackStopped == "Stopped"
LoopNone == "None"
LoopTrack == "Track"
LoopPlaylist == "Playlist"

(***************************************************************************)
(* 64-bit words.                                                           *)
(***************************************************************************)
LimbBase == 2^16
SignLimb == 2^15
Limbs == 1..4

NatToWord(n) == <<n % LimbBase, (n \div LimbBase) % LimbBase, 0, 0>>
WordToNat(w) == w[1] + LimbBase * w[2]

\* the sign of the word read as int64
IsNegative(w) == w[4] >= SignLimb

Not64(w) == [i \in Limbs |-> LimbBase - 1 - w[i]]

\* w + 1 modulo 2^64
Inc64(w) ==
    LET carry[i \in 0..4] ==
            IF i = 0 THEN 1
            ELSE IF w[i] + carry[i - 1] = LimbBase THEN 1 ELSE 0
    IN  [i \in Limbs |-> (w[i] + carry[i - 1]) % LimbBase]

\* two's-complement negation modulo 2^64
Neg64(w) == Inc64(Not64(w))

\* |w| of the word read as int64, as an unsigned word
Abs64(w) == IF IsNegative(w) THEN Neg64(w) ELSE w

\* int64(l) of a uint64 l: Go keeps the 64 bits and reads them as signed
Int64OfUint64(l) == l

(***************************************************************************)
(* float64 values: sign * mag / den.                                       *)
(***************************************************************************)
Float(neg, mag, den) == [neg |-> neg, mag |-> mag, den |-> den]
FloatZero == Float(FALSE, NatToWord(0), 1)

\* float64(i) of an int64 word (the rounding to 53 bits of |i| >= 2^53 keeps
\* the sign and the order, and is left out)
Float64OfInt64(i) == Float(IsNegative(i), Abs64(i), 1)

\* int64(f) of a float whose magnitude is small: truncation toward zero
Int64OfFloat(f) ==
    LET q == WordToNat(f.mag) \div f.den
    IN  IF f.neg THEN Neg64(NatToWord(q)) ELSE NatToWord(q)

\* f * k for a small integer k, exact
FloatTimes(f, k) == Float(f.neg, NatToWord(WordToNat(f.mag) * k), f.den)

\* f / k for a positive integer k, exact
FloatOver(f, k) == Float(f.neg, f.mag, f.den * k)

\* a faulty variant of convertToMicroseconds: the scale of milliseconds
convertToMilliseconds(seconds) == Int64OfFloat(FloatTimes(seconds, 1000))

convertToMicroseconds(seconds) == Int64OfFloat(FloatTimes(seconds, MicrosPerSecond))

convertToSeconds(microseconds) == FloatOver(Float64OfInt64(microseconds), MicrosPerSecond)

(***************************************************************************)
(* Wire values (dbus.Variant contents).                                    *)
(***************************************************************************)
Nil == [t |-> "nil", v |-> "nil"]          \* dbus.Variant{}: Value() == nil
Str(s) == [t |-> "string", v |-> s]
Dbl(f) == [t |-> "double", v |-> f]
Bool(b) == [t |-> "bool", v |-> b]
I64(w) == [t |-> "int64", v |-> w]
U64(w) == [t |-> "uint64", v |-> w]
Path(p) == [t |-> "objpath", v |-> p]
Map(m) == [t |-> "map", v |-> m]
Names(l) == [t |-> "names", v |-> l]       \* a []string

NoError == "nil"
ErrNilVariant == "variant value is nil"        \* fmt.Errorf("variant value is nil")
ErrUnknownType == "unknown type"               \* fmt.Errorf("unknown type %T", ...)
BusErrors == {"connection closed", "remote error"}

(***************************************************************************)
(* The values the environment may send.                                    *)
(***************************************************************************)
Word2p63 == <<0, 0, 0, SignLimb>>                                  \* 2^63
WordMax == <<LimbBase - 1, LimbBase - 1, LimbBase - 1, LimbBase - 1>> \* 2^64 - 1
SmallWords == {NatToWord(0), NatToWord(1500000), NatToWord(42500000)}
Int64Words == SmallWords \cup {Neg64(NatToWord(1500000)), Word2p63}
Uint64Words == SmallWords \cup {Word2p63, WordMax}

Floats == {FloatZero, Float(FALSE, NatToWord(1), 2), Float(FALSE, NatToWord(1), 1)}

TrackIds == {Path("/org/mpris/MediaPlayer2/Track/1"), Str("/track/2"),
             I64(NatToWord(1))}
Lengths == {I64(w) : w \in Int64Words} \cup {U64(w) : w \in Uint64Words}
               \cup {Str("180"), Dbl(Float(FALSE, NatToWord(3), 2))}

WithKey(m, k, val) == [x \in DOMAIN m \cup {k} |-> IF x = k THEN val ELSE m[x]]
EmptyMap == [x \in {} |-> Nil]
Metadatas ==
    LET withId == {EmptyMap} \cup {WithKey(EmptyMap, "mpris:trackid", i) : i \in TrackIds}
    IN  withId \cup {WithKey(m, "mpris:length", l) : m \in withId, l \in Lengths}

Strings == {PlaybackPlaying, PlaybackPaused, PlaybackStopped, "Buffering",
            LoopNone, LoopTrack, LoopPlaylist, ""}

WireValues ==
    {Str(s) : s \in Strings} \cup {Dbl(f) : f \in Floats}
        \cup {Bool(b) : b \in BOOLEAN}
        \cup {I64(w) : w \in Int64Words} \cup {U64(w) : w \in Uint64Words}
        \cup {Path("/org/mpris/MediaPlayer2/Track/1")}
        \cup {Map(m) : m \in Metadatas}

(***************************************************************************)
(* The bus as the adapter sees it.  A call is what obj.Call sends; a reply *)
(* is what it gets back: an error, or a body.                              *)
(***************************************************************************)
BusCall(obj, method, args) ==
    [dest |-> obj.dest, path |-> obj.path, method |-> method, args |-> args]

GetReplies ==
    {[err |-> e, body |-> Nil] : e \in BusErrors}
        \cup {[err |-> NoError, body |-> b] : b \in WireValues \cup {Nil}}

CallReplies == {[err |-> e, body |-> Nil] : e \in BusErrors \cup {NoError}}

\* what an operation hands back: the bus calls it made, and either a panic
\* or the (value, error) pair it returned
Return(cs, err, val) == [calls |-> cs, panic |-> FALSE, err |-> err, val |-> val]
Panic(cs) == [calls |-> cs, panic |-> TRUE, err |-> NoError, val |-> Nil]

\* conn.Object(name, dbusObjectPath)
New(n) == [dest |-> n, path |-> dbusObjectPath]

\* dbus.MakeVariant(val)
MakeVariant(val) == [t |-> "variant", v |-> val]

\* a faulty variant of setProperty: the interface name is left out of the
\* arguments, so that the property name stands in its place
setPropertyNoInterface(obj, iface, prop, val, rep) ==
    LET call == BusCall(obj, setPropertyMethod, <<Str(prop), MakeVariant(val)>>)
    IN  Return(<<call>>, rep.err, Nil)

getProperty(obj, iface, prop, rep) ==
    LET call == BusCall(obj, getPropertyMethod, <<Str(iface), Str(prop)>>)
    IN  IF rep.err # NoError
        THEN [calls |-> <<call>>, variant |-> Nil, err |-> rep.err]
        ELSE [calls |-> <<call>>, variant |-> rep.body, err |-> NoError]

setProperty(obj, iface, prop, val, rep) ==
    LET call == BusCall(obj, setPropertyMethod, <<Str(iface), Str(prop), MakeVariant(val)>>)
    IN  Return(<<call>>, rep.err, Nil)

\* obj.Call(method, 0, args...).Err of a method without a return value
callMethod(obj, method, args, rep) ==
    Return(<<BusCall(obj, method, args)>>, rep.err, Nil)

\* the position of the last "." of s (0 when there is none)
LastDot(s) ==
    LET dots == {i \in 1..Len(s) : SubSeq(s, i, i) = "."}
    IN  IF dots = {} THEN 0 ELSE CHOOSE i \in dots : \A j \in dots : j <= i

\* (*dbus.Object).GetProperty(p): p is "<interface>.<property>"
objGetProperty(obj, p, rep) ==
    LET idx == LastDot(p)
    IN  getProperty(obj, SubSeq(p, 1, idx - 1), SubSeq(p, idx + 1, Len(p)), rep)

(***************************************************************************)
(* Player operations.  obj is the handle's object, rep the reply of the    *)
(* bus call the operation makes.                                           *)
(***************************************************************************)
Raise(obj, rep) == callMethod(obj, BaseInterface \o ".Raise", <<>>, rep)
Quit(obj, rep) == callMethod(obj, BaseInterface \o ".Quit", <<>>, rep)

GetIdentity(obj, rep) ==
    LET g == getProperty(obj, BaseInterface, "Identity", rep)
    IN  IF g.variant.t # "string"
        THEN Panic(g.calls)                      \* value.Value().(string)
        ELSE Return(g.calls, g.err, g.variant)

PlayerNext(obj, rep) == callMethod(obj, PlayerInterface \o ".Next", <<>>, rep)
Previous(obj, rep) == callMethod(obj, PlayerInterface \o ".Previous", <<>>, rep)
Pause(obj, rep) == callMethod(obj, PlayerInterface \o ".Pause", <<>>, rep)
PlayPause(obj, rep) == callMethod(obj, PlayerInterface \o ".PlayPause", <<>>, rep)
Stop(obj, rep) == callMethod(obj, PlayerInterface \o ".Stop", <<>>, rep)
Play(obj, rep) == callMethod(obj, PlayerInterface \o ".Play", <<>>, rep)

Seek(obj, offset, rep) ==
    callMethod(obj, PlayerInterface \o ".Seek", <<I64(convertToMicroseconds(offset))>>, rep)

SetTrackPosition(obj, trackId, position, rep) ==
    callMethod(obj, PlayerInterface \o ".SetPosition",
               <<trackId, I64(convertToMicroseconds(position))>>, rep)

OpenUri(obj, uri, rep) == callMethod(obj, PlayerInterface \o ".OpenUri", <<Str(uri)>>, rep)

\* a faulty variant of GetPlaybackStatus: a string outside the enumeration
\* is rejected
GetPlaybackStatusStrict(obj, rep) ==
    LET g == objGetProperty(obj, PlayerInterface \o ".PlaybackStatus", rep)
    IN  IF g.err # NoError THEN Return(g.calls, g.err, Str(""))
        ELSE IF g.variant.t = "nil" THEN Return(g.calls, ErrNilVariant, Str(""))
        ELSE IF g.variant.t # "string" THEN Panic(g.calls)
        ELSE IF g.variant.v \notin {PlaybackPlaying, PlaybackPaused, PlaybackStopped}
             THEN Return(g.calls, ErrUnknownType, Str(""))
        ELSE Return(g.calls, NoError, Str(g.variant.v))

GetPlaybackStatus(obj, rep) ==
    LET g == objGetProperty(obj, PlayerInterface \o ".PlaybackStatus", rep)
    IN  IF g.err # NoError THEN Return(g.calls, g.err, Str(""))
        ELSE IF g.variant.t = "nil" THEN Return(g.calls, ErrNilVariant, Str(""))
        ELSE IF g.variant.t # "string" THEN Panic(g.calls)
        ELSE Return(g.calls, NoError, Str(g.variant.v))

GetLoopStatus(obj, rep) ==
    LET g == getProperty(obj, PlayerInterface, "LoopStatus", rep)
    IN  IF g.err # NoError THEN Return(g.calls, g.err, Str(""))
        ELSE IF g.variant.t = "nil" THEN Return(g.calls, ErrNilVariant, Str(""))
        ELSE IF g.variant.t # "string" THEN Panic(g.calls)
        ELSE Return(g.calls, NoError, Str(g.variant.v))

SetPlayerProperty(obj, propertyName, value, rep) ==
    setProperty(obj, PlayerInterface, propertyName, value, rep)

SetLoopStatus(obj, loopStatus, rep) ==
    SetPlayerProperty(obj, "LoopStatus", Str(loopStatus), rep)

GetRate(obj, rep) ==
    LET g == getProperty(obj, PlayerInterface, "Rate", rep)
    IN  IF g.err # NoError THEN Return(g.calls, g.err, Dbl(FloatZero))
        ELSE IF g.variant.t = "nil" THEN Return(g.calls, ErrNilVariant, Dbl(FloatZero))
        ELSE IF g.variant.t # "double" THEN Panic(g.calls)
        ELSE Return(g.calls, NoError, g.variant)

GetShuffle(obj, rep) ==
    LET g == getProperty(obj, PlayerInterface, "Shuffle", rep)
    IN  IF g.err # NoError THEN Return(g.calls, g.err, Bool(FALSE))
        ELSE IF g.variant.t = "nil" THEN Return(g.calls, ErrNilVariant, Bool(FALSE))
        ELSE IF g.variant.t # "bool" THEN Panic(g.calls)
        ELSE Return(g.calls, NoError, g.variant)

SetShuffle(obj, value, rep) == setProperty(obj, PlayerInterface, "Shuffle", Bool(value), rep)

GetMetadata(obj, rep) ==
    LET g == getProperty(obj, PlayerInterface, "Metadata", rep)
    IN  IF g.err # NoError THEN Return(g.calls, g.err, Nil)
        ELSE IF g.variant.t = "nil" THEN Return(g.calls, ErrNilVariant, Nil)
        ELSE IF g.variant.t # "map" THEN Panic(g.calls)
        ELSE Return(g.calls, NoError, g.variant)

GetVolume(obj, rep) ==
    LET g == getProperty(obj, PlayerInterface, "Volume", rep)
    IN  IF g.err # NoError THEN Return(g.calls, g.err, Dbl(FloatZero))
        ELSE IF g.variant.t = "nil" THEN Return(g.calls, ErrNilVariant, Dbl(FloatZero))
        ELSE IF g.variant.t # "double" THEN Panic(g.calls)
        ELSE Return(g.calls, NoError, g.variant)

SetVolume(obj, volume, rep) == setProperty(obj, PlayerInterface, "Volume", Dbl(volume), rep)

\* metadata[key]: the zero Variant when the map is nil or has no such key
Lookup(metadata, key) ==
    IF metadata.t = "map" /\ key \in DOMAIN metadata.v THEN metadata.v[key] ELSE Nil

GetLength(obj, rep) ==
    LET m == GetMetadata(obj, rep)
        length == Lookup(m.val, "mpris:length")
    IN  IF m.panic THEN m
        ELSE IF m.err # NoError THEN Return(m.calls, m.err, Dbl(FloatZero))
        ELSE IF m.val.t = "nil" \/ length.t = "nil"
             THEN Return(m.calls, ErrNilVariant, Dbl(FloatZero))
        ELSE IF length.t = "int64"
             THEN Return(m.calls, NoError, Dbl(convertToSeconds(length.v)))
        ELSE IF length.t = "uint64"
             THEN Return(m.calls, NoError, Dbl(convertToSeconds(Int64OfUint64(length.v))))
        ELSE Return(m.calls, ErrUnknownType, Dbl(FloatZero))

GetPosition(obj, rep) ==
    LET g == getProperty(obj, PlayerInterface, "Position", rep)
    IN  IF g.err # NoError THEN Return(g.calls, g.err, Dbl(FloatZero))
        ELSE IF g.variant.t = "nil" THEN Return(g.calls, ErrNilVariant, Dbl(FloatZero))
        ELSE IF g.variant.t # "int64" THEN Panic(g.calls)
        ELSE Return(g.calls, NoError, Dbl(convertToSeconds(g.variant.v)))

\* rep is the reply to the Metadata read, rep2 the reply to the SetPosition call
SetPosition(obj, position, rep, rep2) ==
    LET m == GetMetadata(obj, rep)
        rawTrackID == Lookup(m.val, "mpris:trackid")
        trackId == IF rawTrackID.t = "objpath" THEN rawTrackID
                   ELSE IF rawTrackID.t = "string" THEN Path(rawTrackID.v)
                   ELSE Path("")
        set == SetTrackPosition(obj, trackId, position, rep2)
    IN  IF m.panic THEN m
        ELSE IF m.err # NoError THEN Return(m.calls, m.err, Nil)
        ELSE IF m.val.t = "nil" \/ rawTrackID.t = "nil" THEN Return(m.calls, ErrNilVariant, Nil)
        ELSE Return(m.calls \o set.calls, NoError, Nil)

(***************************************************************************)
(* Discovery.                                                              *)
(***************************************************************************)
BusObject == [dest |-> "org.freedesktop.DBus", path |-> "/org/freedesktop/DBus"]

\* a faulty variant of HasPrefix: the last character of the prefix is not
\* compared
HasPrefixButLast(s, prefix) ==
    /\ Len(s) >= Len(prefix) - 1
    /\ SubSeq(s, 1, Len(prefix) - 1) = SubSeq(prefix, 1, Len(prefix) - 1)

\* strings.HasPrefix
HasPrefix(s, prefix) ==
    Len(s) >= Len(prefix) /\ SubSeq(s, 1, Len(prefix)) = prefix

IsMprisName(n) == HasPrefix(n, BaseInterface)

\* rep is the reply to ListNames; its body is the sequence of names
List(rep) ==
    LET call == BusCall(BusObject, "org.freedesktop.DBus.ListNames", <<>>)
        names == rep.body.v
        mprisNames[i \in 0..Len(names)] ==
            IF i = 0 THEN <<>>
            ELSE IF IsMprisName(names[i])
                 THEN Append(mprisNames[i - 1], names[i])
                 ELSE mprisNames[i - 1]
    IN  IF rep.err # NoError
        THEN Return(<<call>>, rep.err, Names(<<>>))
        ELSE Return(<<call>>, NoError, Names(mprisNames[Len(names)]))

(***************************************************************************)
(* Signals.  A match rule constrains a field of a signal unless it leaves  *)
(* the field empty; the bus forwards a signal to the connection when one   *)
(* of the connection's rules matches it, and the connection hands every    *)
(* signal it receives to every channel registered with conn.Signal.        *)
(***************************************************************************)
MatchRule(sender, path, iface, member) ==
    [sender |-> sender, path |-> path, iface |-> iface, member |-> member]

Matches(rule, sig) ==
    /\ rule.sender \in {"", sig.sender}
    /\ rule.path \in {"", sig.path}
    /\ rule.iface \in {"", sig.iface}
    /\ rule.member \in {"", sig.member}

\* the rule conn.AddMatchSignal() builds from its (here: no) options
AddMatchSignalRule == MatchRule("", "", "", "")

\* rep is the reply to the AddMatch call; rules and chans are the
\* connection's match rules and signal channels before the call
OnSignal(rules, chans, ch, rep) ==
    LET call == BusCall(BusObject, "org.freedesktop.DBus.AddMatch", <<AddMatchSignalRule>>)
    IN  IF rep.err = NoError
        THEN [out |-> Return(<<call>>, NoError, Nil),
              matchRules |-> rules \cup {AddMatchSignalRule},
              sigChans |-> chans \cup {ch}]
        ELSE [out |-> Return(<<call>>, rep.err, Nil),
              matchRules |-> rules,
              sigChans |-> chans]

(***************************************************************************)
(* Inputs.                                                                 *)
(***************************************************************************)
ServiceNames == {"org.mpris.MediaPlayer2.vlc", "org.mpris.MediaPlayer2.mpv"}

NamePool == {"org.mpris.MediaPlayer2.vlc", "org.mpris.MediaPlayer2",
             "org.mpris.MediaPlayer", "com.org.mpris.MediaPlayer2",
             "org.freedesktop.DBus"}

SeqsUpTo(S, n) == UNION {[1..k -> S] : k \in 0..n}

ListReplies ==
    {[err |-> e, body |-> Names(<<>>)] : e \in BusErrors}
        \cup {[err |-> NoError, body |-> Names(R)] : R \in SeqsUpTo(NamePool, MaxNames)}

\* 42.5 s, 0 s, 0.25 s, -1.5 s
Positions == {Float(FALSE, NatToWord(85), 2), FloatZero,
              Float(FALSE, NatToWord(1), 4), Float(TRUE, NatToWord(3), 2)}

LoopStatuses == {LoopNone, LoopTrack, LoopPlaylist}
Volumes == {FloatZero, Float(FALSE, NatToWord(1), 2)}
Uris == {"file:///tmp/a.ogg"}
Chans == {"ch"}

PropertiesInterface == "org.freedesktop.DBus.Properties"
Signal(sender, path, iface, member) ==
    [sender |-> sender, path |-> path, iface |-> iface, member |-> member]

\* the signals the bus may carry while the handle is bound to n
Signals(n) ==
    {Signal(n, dbusObjectPath, PropertiesInterface, "PropertiesChanged"),
     Signal(n, dbusObjectPath, PlayerInterface, "Seeked")}
        \cup {Signal(o, dbusObjectPath, PropertiesInterface, "PropertiesChanged") :
                 o \in ServiceNames \ {n}}
        \cup {Signal("org.freedesktop.NetworkManager", "/org/freedesktop/NetworkManager",
                     PropertiesInterface, "PropertiesChanged")}

NoReply == [err |-> NoError, body |-> Nil]

(***************************************************************************)
(* The state machine: one action per exported operation.                   *)
(***************************************************************************)
Op(n, arg, rep, rep2) == [name |-> n, arg |-> arg, rep |-> rep, rep2 |-> rep2]

\* the caller holds no result: it is between two operations
Idle == Op("none", Nil, NoReply, NoReply)

Init ==
    /\ name \in ServiceNames             \* New(conn, name)
    /\ op = Idle
    /\ calls = <<>>
    /\ ret = [panic |-> FALSE, err |-> NoError, val |-> Nil]
    /\ matchRules = {}
    /\ sigChans = {}
    /\ delivered = <<>>

\* the caller is alive: a panic of an operation ends the program
Running == ~ret.panic

\* the caller may start an operation
Ready == Running /\ op = Idle

Finish(o, r) ==
    /\ op' = o
    /\ calls' = r.calls
    /\ ret' = [panic |-> r.panic, err |-> r.err, val |-> r.val]
    /\ UNCHANGED <<name, matchRules, sigChans, delivered>>

DoList == Ready /\ \E rep \in ListReplies : Finish(Op("List", Nil, rep, NoReply), List(rep))

DoRaise == Ready /\ \E rep \in CallReplies : Finish(Op("Raise", Nil, rep, NoReply), Raise(New(name), rep))
DoQuit == Ready /\ \E rep \in CallReplies : Finish(Op("Quit", Nil, rep, NoReply), Quit(New(name), rep))
DoNext == Ready /\ \E rep \in CallReplies : Finish(Op("Next", Nil, rep, NoReply), PlayerNext(New(name), rep))
DoPrevious ==
    Ready /\ \E rep \in CallReplies : Finish(Op("Previous", Nil, rep, NoReply), Previous(New(name), rep))
DoPause == Ready /\ \E rep \in CallReplies : Finish(Op("Pause", Nil, rep, NoReply), Pause(New(name), rep))
DoPlayPause ==
    Ready /\ \E rep \in CallReplies : Finish(Op("PlayPause", Nil, rep, NoReply), PlayPause(New(name), rep))
DoStop == Ready /\ \E rep \in CallReplies : Finish(Op("Stop", Nil, rep, NoReply), Stop(New(name), rep))
DoPlay == Ready /\ \E rep \in CallReplies : Finish(Op("Play", Nil, rep, NoReply), Play(New(name), rep))

DoSeek ==
    Ready /\ \E offset \in Positions, rep \in CallReplies :
        Finish(Op("Seek", Dbl(offset), rep, NoReply), Seek(New(name), offset, rep))

DoOpenUri ==
    Ready /\ \E uri \in Uris, rep \in CallReplies :
        Finish(Op("OpenUri", Str(uri), rep, NoReply), OpenUri(New(name), uri, rep))

DoGetIdentity ==
    Ready /\ \E rep \in GetReplies :
        Finish(Op("GetIdentity", Nil, rep, NoReply), GetIdentity(New(name), rep))
DoGetPlaybackStatus ==
    Ready /\ \E rep \in GetReplies :
        Finish(Op("GetPlaybackStatus", Nil, rep, NoReply), GetPlaybackStatus(New(name), rep))
DoGetLoopStatus ==
    Ready /\ \E rep \in GetReplies :
        Finish(Op("GetLoopStatus", Nil, rep, NoReply), GetLoopStatus(New(name), rep))
DoGetRate ==
    Ready /\ \E rep \in GetReplies : Finish(Op("GetRate", Nil, rep, NoReply), GetRate(New(name), rep))
DoGetShuffle ==
    Ready /\ \E rep \in GetReplies :
        Finish(Op("GetShuffle", Nil, rep, NoReply), GetShuffle(New(name), rep))
DoGetMetadata ==
    Ready /\ \E rep \in GetReplies :
        Finish(Op("GetMetadata", Nil, rep, NoReply), GetMetadata(New(name), rep))
DoGetVolume ==
    Ready /\ \E rep \in GetReplies : Finish(Op("GetVolume", Nil, rep, NoReply), GetVolume(New(name), rep))
DoGetLength ==
    Ready /\ \E rep \in GetReplies : Finish(Op("GetLength", Nil, rep, NoReply), GetLength(New(name), rep))
DoGetPosition ==
    Ready /\ \E rep \in GetReplies :
        Finish(Op("GetPosition", Nil, rep, NoReply), GetPosition(New(name), rep))

DoSetLoopStatus ==
    Ready /\ \E l \in LoopStatuses, rep \in CallReplies :
        Finish(Op("SetLoopStatus", Str(l), rep, NoReply), SetLoopStatus(New(name), l, rep))
DoSetShuffle ==
    Ready /\ \E b \in BOOLEAN, rep \in CallReplies :
        Finish(Op("SetShuffle", Bool(b), rep, NoReply), SetShuffle(New(name), b, rep))
DoSetVolume ==
    Ready /\ \E v \in Volumes, rep \in CallReplies :
        Finish(Op("SetVolume", Dbl(v), rep, NoReply), SetVolume(New(name), v, rep))

DoSetPosition ==
    Ready /\ \E position \in Positions, rep \in GetReplies, rep2 \in CallReplies :
        Finish(Op("SetPosition", Dbl(position), rep, rep2),
               SetPosition(New(name), position, rep, rep2))

DoOnSignal ==
    Ready /\ \E ch \in Chans, rep \in CallReplies :
        LET r == OnSignal(matchRules, sigChans, ch, rep)
        IN  /\ op' = Op("OnSignal", Str(ch), rep, NoReply)
            /\ calls' = r.out.calls
            /\ ret' = [panic |-> r.out.panic, err |-> r.out.err, val |-> r.out.val]
            /\ matchRules' = r.matchRules
            /\ sigChans' = r.sigChans
            /\ UNCHANGED <<name, delivered>>

\* the environment: some service emits a signal
EmitSignal ==
    /\ Running
    /\ Len(delivered) < MaxDelivered
    /\ sigChans # {}
    /\ \E sig \in Signals(name) :
        /\ \E rule \in matchRules : Matches(rule, sig)
        /\ \E ch \in sigChans : delivered' = Append(delivered, [ch |-> ch, sig |-> sig])
        /\ UNCHANGED <<name, op, calls, ret, matchRules, sigChans>>

\* the caller has looked at the result and goes on to its next operation
Continue ==
    /\ Running
    /\ op # Idle
    /\ op' = Idle
    /\ calls' = <<>>
    /\ ret' = [panic |-> FALSE, err |-> NoError, val |-> Nil]
    /\ UNCHANGED <<name, matchRules, sigChans, delivered>>

Next ==
    \/ DoList
    \/ DoRaise \/ DoQuit \/ DoNext \/ DoPrevious \/ DoPause \/ DoPlayPause
    \/ DoStop \/ DoPlay \/ DoSeek \/ DoOpenUri
    \/ DoGetIdentity \/ DoGetPlaybackStatus \/ DoGetLoopStatus \/ DoGetRate
    \/ DoGetShuffle \/ DoGetMetadata \/ DoGetVolume \/ DoGetLength \/ DoGetPosition
    \/ DoSetLoopStatus \/ DoSetShuffle \/ DoSetVolume \/ DoSetPosition
    \/ DoOnSignal
    \/ EmitSignal
    \/ Continue

Spec == Init /\ [][Next]_vars

(***************************************************************************)
(* Properties.                                                             *)
(***************************************************************************)
\* the first bus call of the operation whose result the caller holds
\* succeeded; Body is the body of its reply
ReplyOk == op.rep.err = NoError
Body == op.rep.body
Returned(err) == ~ret.panic /\ ret.err = err
ReturnedError == ~ret.panic /\ ret.err # NoError

\* s starts with p, character by character
StartsWith(s, p) ==
    /\ Len(s) >= Len(p)
    /\ \A i \in 1..Len(p) : SubSeq(s, i, i) = SubSeq(p, i, i)

\* C1: when ListNames succeeds with the names R, List returns without error
\* exactly the names of R that start with "org.mpris.MediaPlayer2", in R's
\* order: the k-th name returned is R's k-th name with that prefix.
C1_ListIsPrefixSubsequence ==
    (op.name = "List" /\ ReplyOk) =>
        LET R == Body.v
            L == ret.val.v
            hits == {i \in 1..Len(R) : StartsWith(R[i], "org.mpris.MediaPlayer2")}
            kth(k) == CHOOSE i \in hits : Cardinality({j \in hits : j <= i}) = k
        IN  /\ Returned(NoError)
            /\ Len(L) = Cardinality(hits)
            /\ \A k \in 1..Len(L) : L[k] = R[kth(k)]

\* a reply that mixes player names with other names, two players among them
C1_Witness ==
    /\ op.name = "List" /\ ReplyOk
    /\ Len(Body.v) = MaxNames
    /\ Body.v[1] = "org.mpris.MediaPlayer"
    /\ Len(ret.val.v) = 2
    /\ ret.val.v[1] # ret.val.v[2]

\* C2: when the property read succeeds with a nil variant, GetVolume,
\* GetRate, GetShuffle and GetIdentity return an error: no panic, and no
\* zero value returned as a success.
C2_AbsentValueIsError ==
    (op.name \in {"GetVolume", "GetRate", "GetShuffle", "GetIdentity"}
        /\ ReplyOk /\ Body.t = "nil") => ReturnedError

\* C3: an operation whose bus call failed returns that call's error, the
\* first one when it made several; it neither panics nor returns nil.
C3_FirstErrorReturned ==
    /\ (op # Idle /\ Len(calls) >= 1 /\ op.rep.err # NoError) => Returned(op.rep.err)
    /\ (op # Idle /\ Len(calls) >= 2 /\ op.rep.err = NoError /\ op.rep2.err # NoError)
           => Returned(op.rep2.err)

\* the integer a small int64 word denotes
SignedValue(w) == IF IsNegative(w) THEN 0 - WordToNat(Neg64(w)) ELSE WordToNat(w)

\* p seconds in whole microseconds, fraction dropped
WholeMicroseconds(p) ==
    LET n == (WordToNat(p.mag) * 1000000) \div p.den
    IN  IF p.neg THEN 0 - n ELSE n

IsMetadataRead(c) ==
    /\ c.method = "org.freedesktop.DBus.Properties.Get"
    /\ c.args = <<Str("org.mpris.MediaPlayer2.Player"), Str("Metadata")>>

IsSetPositionCall(c) == c.method = "org.mpris.MediaPlayer2.Player.SetPosition"

HasTrackId ==
    /\ ReplyOk /\ Body.t = "map"
    /\ "mpris:trackid" \in DOMAIN Body.v
    /\ Body.v["mpris:trackid"].t \in {"objpath", "string"}

NoTrackId ==
    \/ ~ReplyOk
    \/ Body.t = "nil"
    \/ Body.t = "map" /\ "mpris:trackid" \notin DOMAIN Body.v

C6_LengthDecoding ==
    (op.name = "GetLength" /\ ReplyOk /\ Body.t \in {"nil", "map"}) =>
        LET length == Lookup(Body, "mpris:length")
        IN  /\ length.t = "int64" =>
                /\ Returned(NoError)
                /\ ret.val = Dbl(Float(IsNegative(length.v), Abs64(length.v), 1000000))
            /\ length.t = "uint64" =>
                /\ Returned(NoError)
                /\ ret.val = Dbl(Float(FALSE, length.v, 1000000))
            /\ length.t \notin {"int64", "uint64"} => ReturnedError

\* C7: GetPlaybackStatus on a string property returns that string with no
\* error: PlaybackPlaying, PlaybackPaused or PlaybackStopped for "Playing",
\* "Paused" or "Stopped", and any other string unchanged.
C7_PlaybackStatusCoercion ==
    (op.name = "GetPlaybackStatus" /\ ReplyOk /\ Body.t = "string") =>
        /\ Returned(NoError)
        /\ Body.v = "Playing" => ret.val = Str(PlaybackPlaying)
        /\ Body.v = "Paused" => ret.val = Str(PlaybackPaused)
        /\ Body.v = "Stopped" => ret.val = Str(PlaybackStopped)
        /\ ret.val = Str(Body.v)

\* a status outside the enumeration comes back as it is
C7_Witness ==
    /\ op.name = "GetPlaybackStatus" /\ ReplyOk
    /\ Body = Str("Buffering")
    /\ Returned(NoError)
    /\ ret.val = Str("Buffering")

IsOwnPropertiesChanged(sig) ==
    /\ sig.sender = name
    /\ sig.path = "/org/mpris/MediaPlayer2"
    /\ sig.iface \o "." \o sig.member = propertiesChangedSignal

\* C8: OnSignal subscribes to the bound player's properties-changed signal
\* only, so nothing else is delivered on the caller's channel; when the
\* match registration fails it returns that error and the channel is not
\* registered.
C8_OnlyOwnPropertiesChanged ==
    /\ \A i \in 1..Len(delivered) : IsOwnPropertiesChanged(delivered[i].sig)
    /\ (op.name = "OnSignal" /\ op.rep.err # NoError) => Returned(op.rep.err)
    /\ sigChans # {} => matchRules # {}

ExpectedType ==
    [x \in {"GetIdentity", "GetPlaybackStatus", "GetLoopStatus"} |-> "string"]
        @@ [x \in {"GetVolume", "GetRate"} |-> "double"]
        @@ [x \in {"GetShuffle"} |-> "bool"]
        @@ [x \in {"GetPosition"} |-> "int64"]
        @@ [x \in {"GetMetadata"} |-> "map"]

\* C9: a typed getter whose property holds a value of another wire type
\* than the one it coerces to returns an error: no panic, no success.
C9_TypeMismatchIsError ==
    (op.name \in DOMAIN ExpectedType /\ ReplyOk
        /\ Body.t \notin {"nil", ExpectedType[op.name]}) => ReturnedError

SetterProperty ==
    [x \in {"SetLoopStatus"} |-> "LoopStatus"]
        @@ [x \in {"SetShuffle"} |-> "Shuffle"]
        @@ [x \in {"SetVolume"} |-> "Volume"]

\* C10: SetLoopStatus, SetShuffle and SetVolume each make exactly one bus
\* call, Properties.Set on the bound player with the arguments (player
\* interface, property name, value), and return that call's outcome.
C10_SetterIsOnePropertySet ==
    op.name \in DOMAIN SetterProperty =>
        /\ Len(calls) = 1
        /\ calls[1].dest = name
        /\ calls[1].path = "/org/mpris/MediaPlayer2"
        /\ calls[1].method = "org.freedesktop.DBus.Properties.Set"
        /\ calls[1].args = <<Str("org.mpris.MediaPlayer2.Player"),
                             Str(SetterProperty[op.name]),
                             [t |-> "variant", v |-> op.arg]>>
        /\ Returned(op.rep.err)

\* a setter whose call failed hands the failure back
C10_Witness ==
    /\ op.name = "SetLoopStatus"
    /\ op.arg = Str("Track")
    /\ op.rep.err = "remote error"
    /\ Returned("remote error")

====
